---------------------------- MODULE Spec2Model ----------------------------
(***************************************************************************)
(* State-machine model of the shabanipy analysis scripts:                  *)
(*   scripts/jj/fraunhofer/inplane.py       (in-plane alignment)           *)
(*   scripts/squid/fit_squid_oscillations.py (SQUID oscillation fit)       *)
(*   scripts/squid/plot_squid_current.py    (demonstration sweep)          *)
(*   shabanipy/constants.py                 (coil constants)               *)
(*                                                                         *)
(* Conventions.  Python strings whose characters matter (channel names,    *)
(* fridge names, attribute names, data paths) are sequences of one-        *)
(* character strings.  A configuration key is a pair <<base, suffix>>, the *)
(* suffix being the decimal digits an f-string appends (<<>> for the       *)
(* unsuffixed key).  The measured quantities of the two analysis scripts   *)
(* are scaled integers, the data chosen so that every quotient they form   *)
(* is exact; the normalization of the demonstration script is float64.     *)
(* numpy arrays live in a heap of objects so that rebinding a name and     *)
(* writing through a name are different things.                            *)
(***************************************************************************)
EXTENDS Integers, Sequences, FiniteSets, TLC

VARIABLES
    script,        \* which script this run executes
    pc,            \* position in the script
    args,          \* parsed command line
    config,        \* the configuration section: key |-> value, DOMAIN = keys present
    reads,         \* configuration keys looked up so far
    opened,        \* measurement files opened so far (paths, in order)
    err,           \* the exception that ended the run, if any
    warns,         \* warnings issued
    saved,         \* artifacts written to disk
    heap,          \* array objects: <<[val, src, orig]>> indexed by object id
    i,             \* inplane.py: dataset index
    ch_bias,       \* inplane.py: resolved bias channel name
    ch_meas,       \* inplane.py: resolved measurement channel name
    b_perp,        \* object id bound to the name b_perp
    ibias,         \* object id bound to the name ibias
    meas,          \* object id bound to the name meas / lockin
    dvdi,          \* object id bound to the name dvdi
    used,          \* per dataset: the channel names and threshold the run used
    conv,          \* per dataset: the conversions applied to obtain dV/dI
    b_inplane,     \* inplane.py: accumulated in-plane fields
    fraun_center,  \* inplane.py: accumulated Fraunhofer centers
    AMPS_PER_T,    \* fit_squid_oscillations.py: coil constant found by getattr
    bfield,        \* object id bound to the name bfield
    ic_p,          \* object id bound to the name ic_p
    ic_n,          \* object id bound to the name ic_n
    ext,           \* the field and switching currents as extracted (before line 154)
    params,        \* the lmfit parameter set built at lines 168-189
    result,        \* transparencies the least-squares fit assigned
    mcmc,          \* transparencies the emcee sampler assigned
    fits,          \* optimizer and sampler runs started
    t_idx,         \* plot_squid_current.py: position in SECOND_JUNCTION_TRANSPARENCIES
    a_idx,         \* plot_squid_current.py: position in SECOND_JUNCTION_AMPLITUDES
    squid,         \* plot_squid_current.py: the curve compute_squid_current returned
    plotted        \* plot_squid_current.py: the normalized curve last drawn

inplaneVars == <<i, ch_bias, ch_meas, b_perp, ibias, meas, dvdi, used, conv,
                 b_inplane, fraun_center>>
squidVars == <<AMPS_PER_T, bfield, ic_p, ic_n, ext, params, result, mcmc, fits>>
demoVars == <<t_idx, a_idx, squid, plotted>>
vars == <<script, pc, args, config, reads, opened, err, warns, saved, heap,
          inplaneVars, squidVars, demoVars>>

---------------------------------------------------------------------------
(* Bounds of the model *)

\* largest dataset index for which the configuration may hold suffixed keys
MaxIdx == 2
\* resolution of the values an optimizer may assign to a transparency: the
\* candidates are the multiples of 1/(2*TScale) from 0 to 1 + 1/(2*TScale)
TScale == 1
\* phase samples per period 2*pi (the script samples 500 per period)
NPhase == 8

---------------------------------------------------------------------------
(* Strings *)

UpperMap ==
    ("a" :> "A") @@ ("b" :> "B") @@ ("c" :> "C") @@ ("d" :> "D") @@ ("e" :> "E") @@
    ("f" :> "F") @@ ("g" :> "G") @@ ("h" :> "H") @@ ("i" :> "I") @@ ("j" :> "J") @@
    ("k" :> "K") @@ ("l" :> "L") @@ ("m" :> "M") @@ ("n" :> "N") @@ ("o" :> "O") @@
    ("p" :> "P") @@ ("q" :> "Q") @@ ("r" :> "R") @@ ("s" :> "S") @@ ("t" :> "T") @@
    ("u" :> "U") @@ ("v" :> "V") @@ ("w" :> "W") @@ ("x" :> "X") @@ ("y" :> "Y") @@
    ("z" :> "Z")

\* str.upper()
Upper(s) == [k \in 1..Len(s) |-> IF s[k] \in DOMAIN UpperMap THEN UpperMap[s[k]] ELSE s[k]]

\* str.endswith(suffix)
EndsWith(s, suf) ==
    /\ Len(suf) <= Len(s)
    /\ SubSeq(s, Len(s) - Len(suf) + 1, Len(s)) = suf

Digits == <<"0", "1", "2", "3", "4", "5", "6", "7", "8", "9">>

RECURSIVE IntToStr(_)
\* the decimal text an f-string gives a non-negative int
IntToStr(n) ==
    IF n < 10 THEN <<Digits[n + 1]>>
    ELSE IntToStr(n \div 10) \o <<Digits[(n % 10) + 1]>>

STR_VI_CURVE == <<"V", "I", " ", "c", "u", "r", "v", "e">>
STR_SINGLEVALUE == <<"S", "i", "n", "g", "l", "e", "V", "a", "l", "u", "e">>
STR_VALUE == <<"V", "a", "l", "u", "e">>

---------------------------------------------------------------------------
(* Configuration section (configparser.SectionProxy) *)

\* f"{base}{n}"
KeyN(base, n) == <<base, IntToStr(n)>>
\* the unsuffixed key
Key(base) == <<base, <<>> >>

\* optional float: what getfloat returns
NoneF == [some |-> FALSE, val |-> 0]
Some(x) == [some |-> TRUE, val |-> x]

\* config.get(key, fallback) / config.getfloat(key, fallback)
CfgGet(cfg, key, fallback) == IF key \in DOMAIN cfg THEN cfg[key] ELSE fallback
CfgGetFloat(cfg, key, fallback) == IF key \in DOMAIN cfg THEN Some(cfg[key]) ELSE fallback

\* config[key] raises KeyError when the key is absent
Has(cfg, key) == key \in DOMAIN cfg

\* bool(config.get(key)): None and the empty string are falsy
Truthy(cfg, key) == Has(cfg, key) /\ cfg[key] # <<>>

NoErr == [kind |-> "", key |-> Key("")]
KeyError(key) == [kind |-> "KeyError", key |-> key]
\* arithmetic with the None that getfloat returned for an absent key
TypeErrorNone(key) == [kind |-> "TypeError", key |-> key]

\* restriction of a function to a subset of its domain
Restrict(f, S) == [k \in S |-> f[k]]

---------------------------------------------------------------------------
(* Arrays and the object heap *)

NoObj == 0

\* a new array object; src is "file" for an array the reader returned
Obj(val, src) == [val |-> val, src |-> src, orig |-> val]
Alloc(h, val, src) == Append(h, Obj(val, src))
NewId(h) == Len(h) + 1
\* an in-place write through an object id (a /= b)
Store(h, id, val) == [h EXCEPT ![id].val = val]

Abs(x) == IF x < 0 THEN -x ELSE x
MapAbs(a) == [k \in 1..Len(a) |-> Abs(a[k])]
\* element-wise quotient by a scalar; the data make it exact
DivBy(a, d) == [k \in 1..Len(a) |-> a[k] \div d]
DivArr(a, b) == [k \in 1..Len(a) |-> a[k] \div b[k]]
Reverse(a) == [k \in 1..Len(a) |-> a[Len(a) + 1 - k]]
Negate(a) == [k \in 1..Len(a) |-> -a[k]]

\* np.gradient along the last axis, unit spacing: one-sided at the two ends,
\* central differences inside
Gradient(a) ==
    [k \in 1..Len(a) |->
        IF k = 1 THEN a[2] - a[1]
        ELSE IF k = Len(a) THEN a[Len(a)] - a[Len(a) - 1]
        ELSE (a[k + 1] - a[k - 1]) \div 2]

---------------------------------------------------------------------------
(* inplane.py: inputs *)

CH_DMM_VI == <<"T", " ", "-", " ", "V", "I", " ", "c", "u", "r", "v", "e">>
CH_DMM_SV == <<"D", " ", "-", " ", "S", "i", "n", "g", "l", "e", "V", "a", "l", "u", "e">>
CH_LOCKIN_VALUE == <<"L", " ", "-", " ", "V", "a", "l", "u", "e">>
CH_TRACER_DR == <<"T", " ", "-", " ", "d", "R", "/", "d", "I">>
MeasNames == {CH_DMM_VI, CH_DMM_SV, CH_LOCKIN_VALUE, CH_TRACER_DR}

CH_BIAS_BASE == <<"b", "i", "a", "s">>
CH_BIAS_OVR == <<"b", "i", "a", "s", "2">>
CH_PERP == <<"B", "z">>
CH_INPLANE == <<"M", " ", "-", " ", "B", "y">>

DatasetIdx == 1..MaxIdx

\* the path a DATAPATH{j} key holds when it is set
PathOf(j) == <<"d">> \o IntToStr(j)
IdxOfPath(p) == CHOOSE j \in DatasetIdx : PathOf(j) = p

\* what the measurement file of dataset j holds (one bias sweep line)
FileData(j) ==
    [b_perp |-> <<-1, 0, 1>>,
     ibias |-> <<-4 * j, 0, 4 * j>>,
     meas |-> <<-8 * j, 0, 24 * j>>,
     inplane |-> 10 * j,
     amplitude |-> 4]

InplaneBaseKeys ==
    {"CH_BIAS", "CH_MEAS", "CH_FIELD_PERP", "CH_FIELD_INPLANE", "DC_AMP_GAIN",
     "R_AC_OUT", "R_DC_OUT", "FRIDGE", "THRESHOLD", "VMIN", "VMAX"}
OverridableKeys == {"CH_BIAS", "CH_MEAS", "THRESHOLD"}

InplaneBase(measName) ==
    (Key("CH_BIAS") :> CH_BIAS_BASE) @@ (Key("CH_MEAS") :> measName) @@
    (Key("CH_FIELD_PERP") :> CH_PERP) @@ (Key("CH_FIELD_INPLANE") :> CH_INPLANE) @@
    (Key("DC_AMP_GAIN") :> 2) @@ (Key("R_AC_OUT") :> 2) @@ (Key("R_DC_OUT") :> 2) @@
    (Key("FRIDGE") :> <<"v", "9">>) @@ (Key("THRESHOLD") :> 5) @@
    (Key("VMIN") :> 0) @@ (Key("VMAX") :> 100)

\* DATAPATH{j} keys: dp[j] is "absent", "empty" (DATAPATHj =) or "set"
DataPaths(dp) ==
    [k \in {KeyN("DATAPATH", j) : j \in {n \in DatasetIdx : dp[n] # "absent"}} |->
        LET j == CHOOSE n \in DatasetIdx : KeyN("DATAPATH", n) = k
        IN IF dp[j] = "empty" THEN <<>> ELSE PathOf(j)]

\* the suffixed keys of dataset j named in ks
Overrides(j, ks, ovrMeas) ==
    [k \in {KeyN(b, j) : b \in ks} |->
        IF k = KeyN("CH_BIAS", j) THEN CH_BIAS_OVR
        ELSE IF k = KeyN("CH_MEAS", j) THEN ovrMeas
        ELSE 7]

InplaneConfig(dp, missing, measName, ovrIdx, ovrKeys, ovrMeas) ==
    LET base == InplaneBase(measName)
        kept == Restrict(base, DOMAIN base \ {Key(m) : m \in missing})
    IN kept @@ DataPaths(dp) @@ Overrides(ovrIdx, ovrKeys, ovrMeas)

\* complete configurations: every dataset layout, measurement channel and
\* set of suffixed overrides for one dataset
CompleteInplaneConfigs ==
    { InplaneConfig(dp, {}, measName, ovr[1], ovr[2], ovr[3]) :
        dp \in [DatasetIdx -> {"absent", "empty", "set"}],
        measName \in MeasNames,
        ovr \in {<<1, {}, CH_TRACER_DR>>} \cup
                (DatasetIdx \X (SUBSET OverridableKeys \ {{}}) \X {CH_DMM_SV, CH_LOCKIN_VALUE}) }

\* configurations with one unsuffixed key absent, with and without the
\* suffixed overrides of dataset 1
DefectiveInplaneConfigs ==
    { InplaneConfig(dp, {m}, measName, 1, ks, CH_LOCKIN_VALUE) :
        dp \in [DatasetIdx -> {"absent", "empty", "set"}],
        m \in InplaneBaseKeys,
        measName \in MeasNames,
        ks \in {{}, OverridableKeys} }

ArgsDefault ==
    [align |-> FALSE, debug |-> FALSE, both_branches |-> FALSE, dry_run |-> FALSE,
     plot_guess |-> FALSE, conf_interval |-> "None", emcee |-> FALSE, verbose |-> FALSE]

\* entered: the loop body ran for the dataset; got: the keys resolved for it
NoUse == [entered |-> FALSE, ch_bias |-> <<>>, ch_meas |-> <<>>, threshold |-> NoneF,
          got |-> {}]
\* an lmfit Parameter: value, upper bound (max), constraint expression
NoParam == [value |-> 0, max |-> 0, bounded |-> FALSE, expr |-> ""]
NoParams == [transparency1 |-> NoParam, transparency2 |-> NoParam,
             switching_current1 |-> 0, bfield_offset |-> 0]
NoExt == [bfield |-> <<>>, ic_p |-> <<>>, ic_n |-> <<>>]
NoFit == [done |-> FALSE, t1 |-> 0, t2 |-> 0]

\* the state of fit_squid_oscillations.py's names before it runs
SquidIdle ==
    /\ AMPS_PER_T = 0
    /\ bfield = NoObj /\ ic_p = NoObj /\ ic_n = NoObj
    /\ ext = NoExt
    /\ params = NoParams
    /\ result = NoFit
    /\ mcmc = NoFit
    /\ fits = {}

\* the state of plot_squid_current.py's names before it runs
DemoIdle ==
    /\ t_idx = 1 /\ a_idx = 1
    /\ squid = <<>>
    /\ plotted = <<>>

\* the state of inplane.py's names before it runs
InplaneIdle ==
    /\ i = 1
    /\ ch_bias = <<>> /\ ch_meas = <<>>
    /\ b_perp = NoObj
    /\ used = [j \in DatasetIdx |-> NoUse]
    /\ conv = [j \in DatasetIdx |-> {}]
    /\ b_inplane = <<>>
    /\ fraun_center = <<>>


InitInplane ==
    /\ script = "inplane"
    /\ pc = "loop"
    /\ \/ /\ config \in CompleteInplaneConfigs
          /\ \E al \in BOOLEAN : args = [ArgsDefault EXCEPT !.align = al]
       \/ /\ config \in DefectiveInplaneConfigs
          /\ args = ArgsDefault
    /\ reads = {}
    /\ opened = <<>>
    /\ err = NoErr
    /\ warns = {}
    /\ saved = {}
    /\ heap = <<>>
    /\ ibias = NoObj /\ meas = NoObj /\ dvdi = NoObj
    /\ InplaneIdle
    /\ SquidIdle
    /\ DemoIdle

---------------------------------------------------------------------------
(* inplane.py: the dataset loop *)

Fail(e) == pc' = "error" /\ err' = e

\* line 41: while config.get(f"DATAPATH{i}")
LoopTest ==
    /\ script = "inplane" /\ pc = "loop"
    /\ reads' = reads \cup {KeyN("DATAPATH", i)}
    /\ IF Truthy(config, KeyN("DATAPATH", i))
       THEN pc' = "resolve" /\ used' = [used EXCEPT ![i].entered = TRUE]
       ELSE pc' = "align" /\ UNCHANGED used
    /\ UNCHANGED <<script, args, config, opened, err, warns, saved, heap, i, ch_bias,
                   ch_meas, b_perp, ibias, meas, dvdi, conv, b_inplane, fraun_center,
                   squidVars, demoVars>>

\* the value config.get(f"{base}{i}", config[base]) yields; Python evaluates the
\* fallback argument config[base] before the call
ResolveChannel(cfg, base, n) == CfgGet(cfg, KeyN(base, n), cfg[Key(base)])
\* whether evaluating that expression raises KeyError
ResolveChannelRaises(cfg, base, n) == ~Has(cfg, Key(base))

\* lines 42-43
ResolveChannels ==
    /\ script = "inplane" /\ pc = "resolve"
    /\ IF ResolveChannelRaises(config, "CH_BIAS", i)
       THEN /\ Fail(KeyError(Key("CH_BIAS")))
            /\ reads' = reads \cup {Key("CH_BIAS")}
            /\ UNCHANGED <<ch_bias, ch_meas, used>>
       ELSE IF ResolveChannelRaises(config, "CH_MEAS", i)
       THEN /\ Fail(KeyError(Key("CH_MEAS")))
            /\ reads' = reads \cup {Key("CH_BIAS"), KeyN("CH_BIAS", i), Key("CH_MEAS")}
            /\ ch_bias' = ResolveChannel(config, "CH_BIAS", i)
            /\ used' = [used EXCEPT ![i].ch_bias = ch_bias', ![i].got = @ \cup {"CH_BIAS"}]
            /\ UNCHANGED ch_meas
       ELSE /\ pc' = "read"
            /\ reads' = reads \cup {Key("CH_BIAS"), KeyN("CH_BIAS", i),
                                    Key("CH_MEAS"), KeyN("CH_MEAS", i)}
            /\ ch_bias' = ResolveChannel(config, "CH_BIAS", i)
            /\ ch_meas' = ResolveChannel(config, "CH_MEAS", i)
            /\ used' = [used EXCEPT ![i].ch_bias = ch_bias', ![i].ch_meas = ch_meas',
                                    ![i].got = @ \cup {"CH_BIAS", "CH_MEAS"}]
            /\ UNCHANGED err
    /\ UNCHANGED <<script, args, config, opened, warns, saved, heap, i, b_perp, ibias,
                   meas, dvdi, conv, b_inplane, fraun_center, squidVars, demoVars>>

\* lines 48-59: open the measurement file, read the three channels and the
\* in-plane field
OpenAndRead ==
    /\ script = "inplane" /\ pc = "read"
    /\ opened' = Append(opened, config[KeyN("DATAPATH", i)])
    /\ LET d == FileData(IdxOfPath(config[KeyN("DATAPATH", i)]))
           h1 == Alloc(heap, d.b_perp, "file")
           h2 == Alloc(h1, d.ibias, "file")
           h3 == Alloc(h2, d.meas, "file")
       IN IF ~Has(config, Key("CH_FIELD_PERP"))
          THEN /\ Fail(KeyError(Key("CH_FIELD_PERP")))
               /\ reads' = reads \cup {KeyN("DATAPATH", i), Key("CH_FIELD_PERP")}
               /\ UNCHANGED <<heap, b_perp, ibias, meas, b_inplane>>
          ELSE /\ heap' = h3
               /\ b_perp' = NewId(heap) /\ ibias' = NewId(h1) /\ meas' = NewId(h2)
               /\ IF ~Has(config, Key("CH_FIELD_INPLANE"))
                  THEN /\ Fail(KeyError(Key("CH_FIELD_INPLANE")))
                       /\ UNCHANGED b_inplane
                  ELSE /\ pc' = "dvdi"
                       /\ b_inplane' = Append(b_inplane, d.inplane)
                       /\ UNCHANGED err
               /\ reads' = reads \cup {KeyN("DATAPATH", i), Key("CH_FIELD_PERP"),
                                       Key("CH_FIELD_INPLANE")}
    /\ UNCHANGED <<script, args, config, warns, saved, i, ch_bias, ch_meas, dvdi, used,
                   conv, fraun_center, squidVars, demoVars>>

\* a DC test that knows the "VI curve" suffix only
IsDCNameCurveOnly(name) == EndsWith(name, STR_VI_CURVE)
\* line 61: ch_meas.endswith(("VI curve", "SingleValue"))
IsDCName(name) == EndsWith(name, STR_VI_CURVE) \/ EndsWith(name, STR_SINGLEVALUE)
\* line 71: ch_meas.endswith("Value"), reached only in the else branch of line 61
IsDirectLockin(name) == EndsWith(name, STR_VALUE)

\* lines 61-76
ComputeDvdi ==
    /\ script = "inplane" /\ pc = "dvdi"
    /\ LET amp == FileData(IdxOfPath(config[KeyN("DATAPATH", i)])).amplitude
           gain == CfgGetFloat(config, Key("DC_AMP_GAIN"), NoneF)
           rac == CfgGetFloat(config, Key("R_AC_OUT"), NoneF)
           rdc == CfgGetFloat(config, Key("R_DC_OUT"), NoneF)
           quot == DivArr(Gradient(heap[meas].val), Gradient(heap[ibias].val))
           habs == Alloc(heap, MapAbs(heap[meas].val), "derived")
           \* dvdi /= ibias_ac : written through the object np.abs returned
           hac == Store(habs, NewId(heap), DivBy(habs[NewId(heap)].val, amp \div rac.val))
           \* ibias /= R_DC_OUT : written through the object get_data returned
           hdc == Store(hac, ibias, DivBy(hac[ibias].val, rdc.val))
       IN IF IsDCName(ch_meas)
          THEN /\ reads' = reads \cup {Key("DC_AMP_GAIN")}
               /\ IF ~gain.some
                  THEN /\ Fail(TypeErrorNone(Key("DC_AMP_GAIN")))
                       /\ UNCHANGED <<heap, dvdi, conv>>
                  ELSE /\ pc' = "plot2d"
                       /\ heap' = Alloc(heap, DivBy(quot, gain.val), "derived")
                       /\ dvdi' = NewId(heap)
                       /\ conv' = [conv EXCEPT ![i] = {"gradient", "gain"}]
                       /\ UNCHANGED err
          ELSE IF ~IsDirectLockin(ch_meas)
          THEN /\ pc' = "plot2d"
               /\ heap' = habs
               /\ dvdi' = NewId(heap)
               /\ conv' = [conv EXCEPT ![i] = {"abs"}]
               /\ UNCHANGED <<err, reads>>
          ELSE IF ~rac.some
          THEN /\ Fail(TypeErrorNone(Key("R_AC_OUT")))
               /\ reads' = reads \cup {Key("R_AC_OUT")}
               /\ heap' = habs
               /\ dvdi' = NewId(heap)
               /\ conv' = [conv EXCEPT ![i] = {"abs"}]
          ELSE IF ~rdc.some
          THEN /\ Fail(TypeErrorNone(Key("R_DC_OUT")))
               /\ reads' = reads \cup {Key("R_AC_OUT"), Key("R_DC_OUT")}
               /\ heap' = hac
               /\ dvdi' = NewId(heap)
               /\ conv' = [conv EXCEPT ![i] = {"abs", "acnorm"}]
          ELSE /\ pc' = "plot2d"
               /\ reads' = reads \cup {Key("R_AC_OUT"), Key("R_DC_OUT")}
               /\ heap' = hdc
               /\ dvdi' = NewId(heap)
               /\ conv' = [conv EXCEPT ![i] = {"abs", "acnorm", "biasdiv"}]
               /\ UNCHANGED err
    /\ UNCHANGED <<script, args, config, opened, warns, saved, i, ch_bias, ch_meas,
                   b_perp, ibias, meas, used, b_inplane, fraun_center, squidVars, demoVars>>

\* lines 78-92: the 2-D map of dV/dI
PlotMap ==
    /\ script = "inplane" /\ pc = "plot2d"
    /\ IF ~Has(config, Key("FRIDGE"))
       THEN /\ Fail(KeyError(Key("FRIDGE")))
            /\ reads' = reads \cup {KeyN("DATAPATH", i), Key("FRIDGE")}
       ELSE /\ pc' = "extract"
            /\ reads' = reads \cup {KeyN("DATAPATH", i), Key("FRIDGE"), Key("VMIN"),
                                    Key("VMAX")}
            /\ UNCHANGED err
    /\ UNCHANGED <<script, args, config, opened, warns, saved, heap, inplaneVars, squidVars, demoVars>>

\* line 96: config.getfloat(f"THRESHOLD{i}", config.getfloat("THRESHOLD")); an
\* absent THRESHOLD makes the inner getfloat return None, it does not raise
ResolveThreshold(cfg, n) ==
    CfgGetFloat(cfg, KeyN("THRESHOLD", n), CfgGetFloat(cfg, Key("THRESHOLD"), NoneF))

\* find_fraunhofer_center(b_perp, ic_p): the library's estimate for dataset j
FraunCenter(j) == j

\* a loop that steps over a dataset
NextIndexSkipping(n) == n + 2
\* line 105: i += 1
NextIndex(n) == n + 1

\* lines 94-105: unique fields, threshold, switching current, center, figure
ExtractAndSave ==
    /\ script = "inplane" /\ pc = "extract"
    /\ heap' = Alloc(heap, heap[b_perp].val, "derived")
    /\ b_perp' = NewId(heap)
    /\ reads' = reads \cup {Key("THRESHOLD"), KeyN("THRESHOLD", i)}
    /\ used' = [used EXCEPT ![i].threshold = ResolveThreshold(config, i),
                            ![i].got = @ \cup {"THRESHOLD"}]
    /\ fraun_center' = Append(fraun_center, FraunCenter(i))
    /\ saved' = saved \cup {<<IntToStr(i), "_fraun-center.png">>}
    /\ i' = NextIndex(i)
    /\ pc' = "loop"
    /\ UNCHANGED <<script, args, config, opened, err, warns, ch_bias, ch_meas, ibias,
                   meas, dvdi, conv, b_inplane, squidVars, demoVars>>

\* lines 106-127: the optional alignment fit, then plt.show()
AlignAndShow ==
    /\ script = "inplane" /\ pc = "align"
    /\ IF args.align /\ Len(b_inplane) = 0
       THEN \* np.polyfit refuses an empty vector
            /\ Fail([kind |-> "TypeError", key |-> Key("")])
            /\ UNCHANGED saved
       ELSE /\ pc' = "done"
            /\ saved' = IF args.align
                        THEN saved \cup {<<IntToStr(i - 1), "_field-alignment.png">>}
                        ELSE saved
            /\ UNCHANGED err
    /\ UNCHANGED <<script, args, config, reads, opened, warns, heap, inplaneVars, squidVars, demoVars>>

---------------------------------------------------------------------------
(* shabanipy/constants.py: amps per tesla, in thousandths *)

FOURTEEN_TESLA_AMPS_PER_TESLA == 8341
VECTOR9_AMPS_PER_TESLA_X == 35705
VECTOR9_AMPS_PER_TESLA_Y == 72575
VECTOR9_AMPS_PER_TESLA_Z == 18203
VECTOR10_AMPS_PER_TESLA_X == 35927
VECTOR10_AMPS_PER_TESLA_Y == 74548
VECTOR10_AMPS_PER_TESLA_Z == 18011

\* the module's namespace: attribute name |-> value
ConstantsModule ==
    (<<"F", "O", "U", "R", "T", "E", "E", "N", "_", "T", "E", "S", "L", "A", "_", "A", "M", "P", "S", "_", "P", "E", "R", "_", "T", "E", "S", "L", "A">> :> FOURTEEN_TESLA_AMPS_PER_TESLA) @@
    (<<"V", "E", "C", "T", "O", "R", "9", "_", "A", "M", "P", "S", "_", "P", "E", "R", "_", "T", "E", "S", "L", "A", "_", "X">> :> VECTOR9_AMPS_PER_TESLA_X) @@
    (<<"V", "E", "C", "T", "O", "R", "9", "_", "A", "M", "P", "S", "_", "P", "E", "R", "_", "T", "E", "S", "L", "A", "_", "Y">> :> VECTOR9_AMPS_PER_TESLA_Y) @@
    (<<"V", "E", "C", "T", "O", "R", "9", "_", "A", "M", "P", "S", "_", "P", "E", "R", "_", "T", "E", "S", "L", "A", "_", "Z">> :> VECTOR9_AMPS_PER_TESLA_Z) @@
    (<<"V", "E", "C", "T", "O", "R", "1", "0", "_", "A", "M", "P", "S", "_", "P", "E", "R", "_", "T", "E", "S", "L", "A", "_", "X">> :> VECTOR10_AMPS_PER_TESLA_X) @@
    (<<"V", "E", "C", "T", "O", "R", "1", "0", "_", "A", "M", "P", "S", "_", "P", "E", "R", "_", "T", "E", "S", "L", "A", "_", "Y">> :> VECTOR10_AMPS_PER_TESLA_Y) @@
    (<<"V", "E", "C", "T", "O", "R", "1", "0", "_", "A", "M", "P", "S", "_", "P", "E", "R", "_", "T", "E", "S", "L", "A", "_", "Z">> :> VECTOR10_AMPS_PER_TESLA_Z)

---------------------------------------------------------------------------
(* fit_squid_oscillations.py: inputs *)

FR_vector10 == <<"v", "e", "c", "t", "o", "r", "1", "0">>
FR_VECTOR10 == <<"V", "E", "C", "T", "O", "R", "1", "0">>
FR_vector9 == <<"v", "e", "c", "t", "o", "r", "9">>
FR_Vector9 == <<"V", "e", "c", "t", "o", "r", "9">>
FR_fourteen_tesla == <<"f", "o", "u", "r", "t", "e", "e", "n", "_", "t", "e", "s", "l", "a">>
FR_FOURTEEN_TESLA == <<"F", "O", "U", "R", "T", "E", "E", "N", "_", "T", "E", "S", "L", "A">>
FR_dr == <<"d", "r">>
FridgeNames == {FR_vector10, FR_VECTOR10, FR_vector9, FR_Vector9, FR_fourteen_tesla,
                FR_FOURTEEN_TESLA, FR_dr}
AxisNames == {<<"x">>, <<"X">>, <<"y">>, <<"Y">>, <<"z">>, <<"Z">>, <<"w">>, <<>>}

STR_AMPS_PER_TESLA == <<"_", "A", "M", "P", "S", "_", "P", "E", "R", "_", "T", "E", "S", "L", "A", "_">>
SQUID_DATAPATH == <<"v", "e", "c", "t", "o", "r", "9", "/", "s", "1">>
DATA_DIR == <<"/", "d", "a", "t", "a">>

SquidRequiredKeys ==
    {"DATAPATH", "FRIDGE", "PERP_AXIS", "WAFER", "PIECE", "LAYOUT", "DEVICE", "COOLDOWN",
     "SCAN", "CH_FIELD_PERP", "CH_LOCKIN", "CH_TEMP_MEAS"}

\* eq is "absent", "true" or "false": the EQUAL_TRANSPARENCIES key
SquidConfig(fridge, axis, missing, eq) ==
    LET base == (Key("DATAPATH") :> SQUID_DATAPATH) @@ (Key("FRIDGE") :> fridge) @@
                (Key("PERP_AXIS") :> axis) @@ (Key("WAFER") :> <<"w">>) @@
                (Key("PIECE") :> <<"p">>) @@ (Key("LAYOUT") :> <<"l">>) @@
                (Key("DEVICE") :> <<"d">>) @@ (Key("COOLDOWN") :> <<"c">>) @@
                (Key("SCAN") :> <<"s">>) @@ (Key("CH_FIELD_PERP") :> <<"B">>) @@
                (Key("CH_LOCKIN") :> <<"L">>) @@ (Key("CH_TEMP_MEAS") :> <<"T">>)
        kept == Restrict(base, DOMAIN base \ {Key(m) : m \in missing})
    IN IF eq = "absent" THEN kept ELSE kept @@ (Key("EQUAL_TRANSPARENCIES") :> eq)

\* --conf-interval: not given ("None"), given bare ("empty"), given with sigmas
ConfIntervalArgs == {"None", "empty", "sigmas"}

SquidFlagSets ==
    { [ArgsDefault EXCEPT !.both_branches = f[1], !.dry_run = f[2], !.plot_guess = f[3],
                          !.emcee = f[4], !.verbose = f[5], !.conf_interval = c] :
        f \in BOOLEAN \X BOOLEAN \X BOOLEAN \X BOOLEAN \X BOOLEAN, c \in ConfIntervalArgs }

\* the runs modelled, as <<args, config>>: every flag combination on complete
\* configurations of the two fridges with a sign convention; every fridge and
\* axis name; every single absent required key
SquidInputs ==
    (SquidFlagSets \X
        { SquidConfig(fr, <<"x">>, {}, eq) :
            fr \in {FR_vector10, FR_vector9}, eq \in {"absent", "true", "false"} })
    \cup
    ({[ArgsDefault EXCEPT !.dry_run = d] : d \in BOOLEAN} \X
        ({ SquidConfig(fr, ax, {}, "absent") : fr \in FridgeNames, ax \in AxisNames }
         \cup { SquidConfig(FR_vector9, <<"x">>, {m}, "absent") : m \in SquidRequiredKeys }))

\* what the measurement file holds: coil current in amps, one bias sweep,
\* the lock-in signal, the measured temperature (mK)
SquidFileData ==
    [field |-> <<-36, 0, 72>>,
     ibias |-> <<-4, 0, 4>>,
     lockin |-> <<-8, 0, 24>>,
     temp |-> <<30, 30, 30>>]

\* extract_switching_current(..., side="both"): the pairs <<ic_n, ic_p>> the
\* library may return for the three field points
ExtractOutcomes == { << <<-3, -5, -4>>, <<3, 5, 4>> >>, << <<-6, -2, -4>>, <<2, 4, 6>> >> }

InitSquid ==
    /\ script = "squid"
    /\ pc = "input"
    /\ \E inp \in SquidInputs : args = inp[1] /\ config = inp[2]
    /\ reads = {}
    /\ opened = <<>>
    /\ err = NoErr
    /\ warns = {}
    /\ saved = {}
    /\ heap = <<>>
    /\ ibias = NoObj /\ meas = NoObj /\ dvdi = NoObj
    /\ InplaneIdle
    /\ SquidIdle
    /\ DemoIdle

---------------------------------------------------------------------------
(* fit_squid_oscillations.py *)

\* sub in s
IsSubstr(sub, s) ==
    \E k \in 1..(Len(s) + 1) : k + Len(sub) - 1 <= Len(s) /\ SubSeq(s, k, k + Len(sub) - 1) = sub

\* line 99: the attribute name the script builds
AttrName(fridge, axis) == Upper(fridge) \o STR_AMPS_PER_TESLA \o Upper(axis)

\* the first of ks, in order, that the configuration lacks (<<>> if none)
RECURSIVE FirstMissing(_, _)
FirstMissing(cfg, ks) ==
    IF ks = <<>> THEN <<>>
    ELSE IF ~Has(cfg, Key(Head(ks))) THEN <<Head(ks)>>
    ELSE FirstMissing(cfg, Tail(ks))

\* the keys of ks read up to and including the first missing one
RECURSIVE ReadUpTo(_, _)
ReadUpTo(cfg, ks) ==
    IF ks = <<>> THEN {}
    ELSE IF ~Has(cfg, Key(Head(ks))) THEN {Key(Head(ks))}
    ELSE {Key(Head(ks))} \cup ReadUpTo(cfg, Tail(ks))

\* lines 94-105: the input path, the coil constant, the path sanity check
ResolveInput ==
    /\ script = "squid" /\ pc = "input"
    /\ LET ks == <<"DATAPATH", "FRIDGE", "PERP_AXIS">>
           miss == FirstMissing(config, ks)
           name == AttrName(config[Key("FRIDGE")], config[Key("PERP_AXIS")])
           inpath == CfgGet(config, Key("LABBERDATA_DIR"), DATA_DIR) \o <<"/">>
                     \o config[Key("DATAPATH")]
       IN /\ reads' = reads \cup {Key("LABBERDATA_DIR")} \cup ReadUpTo(config, ks)
          /\ IF miss # <<>>
             THEN /\ Fail(KeyError(Key(miss[1])))
                  /\ UNCHANGED <<AMPS_PER_T, warns>>
             ELSE IF name \notin DOMAIN ConstantsModule
             THEN /\ Fail([kind |-> "AttributeError", key |-> Key("")])
                  /\ UNCHANGED <<AMPS_PER_T, warns>>
             ELSE /\ pc' = "output"
                  /\ AMPS_PER_T' = ConstantsModule[name]
                  /\ warns' = IF IsSubstr(config[Key("FRIDGE")], inpath)
                              THEN warns ELSE warns \cup {"cannot double check"}
                  /\ UNCHANGED err
    /\ UNCHANGED <<script, args, config, opened, saved, heap, inplaneVars, bfield, ic_p,
                   ic_n, ext, params, result, mcmc, fits, demoVars>>

\* lines 108-119: plot style, output directory, file name prefix
SetupOutput ==
    /\ script = "squid" /\ pc = "output"
    /\ LET ks == <<"WAFER", "PIECE", "LAYOUT", "DEVICE", "COOLDOWN", "SCAN">>
           miss == FirstMissing(config, ks)
       IN /\ reads' = reads \cup ReadUpTo(config, ks)
          /\ IF miss # <<>>
             THEN Fail(KeyError(Key(miss[1])))
             ELSE pc' = "load" /\ UNCHANGED err
    /\ UNCHANGED <<script, args, config, opened, warns, saved, heap, inplaneVars,
                   squidVars, demoVars>>

\* fixed-point quotient, rounded toward zero
Quot(a, b) == IF a < 0 THEN -((-a) \div b) ELSE a \div b

\* lines 122-127: open the measurement file and read field, bias, lock-in
\* and temperature
LoadData ==
    /\ script = "squid" /\ pc = "load"
    /\ opened' = Append(opened, SQUID_DATAPATH)
    /\ LET ks == <<"CH_FIELD_PERP", "CH_LOCKIN", "CH_TEMP_MEAS">>
           miss == FirstMissing(config, ks)
           d == SquidFileData
           \* f.get_data(CH_FIELD_PERP) / AMPS_PER_T : a new array
           h1 == Alloc(heap, d.field, "file")
           h2 == Alloc(h1, [k \in 1..Len(d.field) |-> Quot(d.field[k] * 1000000, AMPS_PER_T)],
                       "derived")
           h3 == Alloc(h2, d.ibias, "file")
           h4 == Alloc(h3, d.lockin, "file")
           h5 == Alloc(h4, MapAbs(d.lockin), "derived")
           h6 == Alloc(h5, d.temp, "file")
       IN /\ reads' = reads \cup ReadUpTo(config, ks)
          /\ IF miss = <<"CH_FIELD_PERP">>
             THEN /\ Fail(KeyError(Key(miss[1])))
                  /\ UNCHANGED <<heap, bfield, ibias, meas, dvdi>>
             ELSE IF miss = <<"CH_LOCKIN">>
             THEN /\ Fail(KeyError(Key(miss[1])))
                  /\ heap' = h2 /\ bfield' = NewId(h1)
                  /\ UNCHANGED <<ibias, meas, dvdi>>
             ELSE /\ bfield' = NewId(h1) /\ ibias' = NewId(h2) /\ meas' = NewId(h3)
                  /\ dvdi' = NewId(h4)
                  /\ IF miss = <<"CH_TEMP_MEAS">>
                     THEN Fail(KeyError(Key(miss[1]))) /\ heap' = h5
                     ELSE pc' = "rawplot" /\ heap' = h6 /\ UNCHANGED err
    /\ UNCHANGED <<script, args, config, warns, saved, i, ch_bias, ch_meas, b_perp, used,
                   conv, b_inplane, fraun_center, AMPS_PER_T, ic_p, ic_n, ext, params,
                   result, mcmc, fits, demoVars>>

\* lines 129-138: the raw data figure
PlotRaw ==
    /\ script = "squid" /\ pc = "rawplot"
    /\ saved' = saved \cup {"_raw-data.png"}
    /\ pc' = "extract"
    /\ UNCHANGED <<script, args, config, reads, opened, err, warns, heap, inplaneVars,
                   squidVars, demoVars>>

\* lines 140-151: both switching-current branches, overlaid on the raw map
ExtractIc ==
    /\ script = "squid" /\ pc = "extract"
    /\ reads' = reads \cup {Key("RESISTANCE_THRESHOLD")}
    /\ \E o \in ExtractOutcomes :
        /\ heap' = Alloc(Alloc(heap, o[1], "derived"), o[2], "derived")
        /\ ic_n' = NewId(heap)
        /\ ic_p' = NewId(heap) + 1
        /\ ext' = [bfield |-> heap[bfield].val, ic_p |-> o[2], ic_n |-> o[1]]
    /\ saved' = saved \cup {"_ic-extraction.png"}
    /\ pc' = "fridge"
    /\ UNCHANGED <<script, args, config, opened, err, warns, inplaneVars, AMPS_PER_T,
                   bfield, params, result, mcmc, fits, demoVars>>

\* line 154: config["FRIDGE"] == "vector10"
IsVector10(fridge) == fridge = FR_vector10
\* line 159: config["FRIDGE"] == "vector9"
IsVector9(fridge) == fridge = FR_vector9

\* a reversal that leaves the negative branch in its original order
Vector10ArraysUnpaired(b, p, n) == <<Negate(Reverse(b)), Reverse(p), n>>
\* lines 155-157: the reversed and negated field, the reversed currents
Vector10Arrays(b, p, n) == <<Negate(Reverse(b)), Reverse(p), Reverse(n)>>

\* lines 154-162: the fridge's field sign convention.  np.flip gives a view of
\* the same buffer; nothing is written through it, so it is modelled as a
\* new object holding the reversed values
FridgeConvention ==
    /\ script = "squid" /\ pc = "fridge"
    /\ IF IsVector10(config[Key("FRIDGE")])
       THEN /\ LET f == Vector10Arrays(heap[bfield].val, heap[ic_p].val, heap[ic_n].val)
               IN heap' = Alloc(Alloc(Alloc(heap, f[1], "derived"), f[2], "derived"),
                                f[3], "derived")
            /\ bfield' = NewId(heap)
            /\ ic_p' = NewId(heap) + 1
            /\ ic_n' = NewId(heap) + 2
            /\ UNCHANGED warns
       ELSE IF IsVector9(config[Key("FRIDGE")])
       THEN UNCHANGED <<heap, bfield, ic_p, ic_n, warns>>
       ELSE /\ warns' = warns \cup {"unrecognized fridge"}
            /\ UNCHANGED <<heap, bfield, ic_p, ic_n>>
    /\ pc' = "params"
    /\ UNCHANGED <<script, args, config, reads, opened, err, saved, inplaneVars,
                   AMPS_PER_T, ext, params, result, mcmc, fits, demoVars>>

RECURSIVE SeqMax(_)
SeqMax(a) == IF Len(a) = 1 THEN a[1]
             ELSE LET m == SeqMax(Tail(a)) IN IF a[1] > m THEN a[1] ELSE m
RECURSIVE SeqMin(_)
SeqMin(a) == IF Len(a) = 1 THEN a[1]
             ELSE LET m == SeqMin(Tail(a)) IN IF a[1] < m THEN a[1] ELSE m

\* estimate_boffset(bfield, ic_p, ...): the field of the reference peak
EstimateBOffset(b, ic) == b[CHOOSE k \in 1..Len(ic) : ic[k] = SeqMax(ic)]

\* transparencies are held in units of 1/(2*TScale)
TOne == 2 * TScale

\* lines 169-170: params[name].set(value=0.5, max=1)
TransparencyParam == [value |-> TScale, max |-> TOne, bounded |-> TRUE, expr |-> ""]

\* line 171: config.getboolean("EQUAL_TRANSPARENCIES"); None when absent
EqualTransparencies(cfg) ==
    Has(cfg, Key("EQUAL_TRANSPARENCIES")) /\ cfg[Key("EQUAL_TRANSPARENCIES")] = "true"

\* lines 165-189: the model and its parameters, seeded from the arrays
SeedParams ==
    /\ script = "squid" /\ pc = "params"
    /\ reads' = reads \cup {Key("EQUAL_TRANSPARENCIES")}
    /\ params' =
        [transparency1 |-> TransparencyParam,
         transparency2 |-> IF EqualTransparencies(config)
                           THEN [TransparencyParam EXCEPT !.expr = "transparency1"]
                           ELSE TransparencyParam,
         switching_current1 |-> (SeqMax(heap[ic_p].val) - SeqMin(heap[ic_p].val)) \div 2,
         bfield_offset |-> EstimateBOffset(heap[bfield].val, heap[ic_p].val)]
    /\ pc' = "estimates"
    /\ UNCHANGED <<script, args, config, opened, err, warns, saved, heap, inplaneVars,
                   AMPS_PER_T, bfield, ic_p, ic_n, ext, result, mcmc, fits, demoVars>>

\* a fit block that ignores --dry-run
RunsFitAlways(a) == a.dry_run \/ ~a.dry_run
\* line 259: if not args.dry_run
RunsFit(a) == ~a.dry_run

\* lines 192-256: the frequency and offset estimate figures, the bias step
PlotEstimates ==
    /\ script = "squid" /\ pc = "estimates"
    /\ saved' = saved \cup {"_fft.png", "_bfield-offset.png"}
    /\ pc' = IF RunsFit(args) THEN "fit" ELSE "plotfit"
    /\ UNCHANGED <<script, args, config, reads, opened, err, warns, heap, inplaneVars,
                   squidVars, demoVars>>

\* the values an optimizer or sampler may hand the model for a parameter:
\* any candidate not above the parameter's max (min is left at -inf)
Candidates == 0..(TOne + 1)
Allowed(p) == {v \in Candidates : p.bounded => v <= p.max}

\* the <<transparency1, transparency2>> pairs of one model evaluation: a
\* parameter with an expression is computed from it, not varied
Evaluations(ps) ==
    {<<v1, v2>> \in Allowed(ps.transparency1) \X Allowed(ps.transparency2) :
        ps.transparency2.expr = "transparency1" => v2 = v1}

\* lines 259-284: least-squares fit, reports, confidence intervals, result file
Fit ==
    /\ script = "squid" /\ pc = "fit"
    /\ \E e \in Evaluations(params) : result' = [done |-> TRUE, t1 |-> e[1], t2 |-> e[2]]
    /\ fits' = fits \cup {"leastsq"} \cup
               (IF args.conf_interval # "None" THEN {"conf_interval"} ELSE {})
    /\ saved' = saved \cup {"_fit-report.txt", "_fit-params.txt", "_model-result.json"}
    /\ pc' = IF args.emcee THEN "emcee" ELSE "plotfit"
    /\ UNCHANGED <<script, args, config, reads, opened, err, warns, heap, inplaneVars,
                   AMPS_PER_T, bfield, ic_p, ic_n, ext, params, mcmc, demoVars>>

\* lines 286-322: the emcee run on result.params, its result file and figures
Emcee ==
    /\ script = "squid" /\ pc = "emcee"
    /\ \E e \in Evaluations(params) : mcmc' = [done |-> TRUE, t1 |-> e[1], t2 |-> e[2]]
    /\ fits' = fits \cup {"emcee"}
    /\ saved' = saved \cup {"_mcmc-result.json", "_emcee-acceptance-fraction.png",
                            "_emcee-corner.png"}
    /\ pc' = "plotfit"
    /\ UNCHANGED <<script, args, config, reads, opened, err, warns, heap, inplaneVars,
                   AMPS_PER_T, bfield, ic_p, ic_n, ext, params, result, demoVars>>

\* lines 326-380: data, fit and guess against phase; the curve table; plt.show()
PlotFit ==
    /\ script = "squid" /\ pc = "plotfit"
    /\ saved' = saved \cup {"_fit.png"} \cup (IF RunsFit(args) THEN {"_fit.csv"} ELSE {})
    /\ pc' = "done"
    /\ UNCHANGED <<script, args, config, reads, opened, err, warns, heap, inplaneVars,
                   squidVars, demoVars>>

---------------------------------------------------------------------------
(* shabanipy.squid: the current-phase relation and the two-junction model.   *)
(* Phases are multiples of 2*pi/NPhase; currents are in units of 1/1000 of   *)
(* the first junction's amplitude; transparencies are in tenths.             *)

\* 1000 * sin(pi * r / NPhase) for 0 <= r <= NPhase (Bhaskara's rational form)
SinHalfTurn(r) == (16000 * r * (NPhase - r)) \div (5 * NPhase * NPhase - 4 * r * (NPhase - r))

\* 1000 * sin(pi * j / NPhase) for any integer j
SinPi(j) ==
    LET r == j % (2 * NPhase)
    IN IF r <= NPhase THEN SinHalfTurn(r) ELSE -SinHalfTurn(r - NPhase)

RECURSIVE ISqrtIn(_, _, _)
\* the r in lo..hi with r*r <= n < (r+1)*(r+1), by bisection
ISqrtIn(n, lo, hi) ==
    IF lo = hi THEN lo
    ELSE LET mid == (lo + hi + 1) \div 2
         IN IF mid * mid <= n THEN ISqrtIn(n, mid, hi) ELSE ISqrtIn(n, lo, mid - 1)
\* floor of the square root, for n < 2^20
ISqrt(n) == ISqrtIn(n, 0, 1023)

\* finite_transparency_jj_current(phase, anomalous_phase, amplitude, transparency)
\*   = amplitude * sin(x) / sqrt(1 - transparency * sin(x/2)^2), x = phase - anomalous_phase
\* at phase k * 2*pi/NPhase, amplitude a/100, transparency t/10, in 1/1000
CprUnit ==
    [t \in {0, 6, 9} |->
        [k \in 0..(NPhase - 1) |->
            LET h == SinPi(k) \div 10
                root == ISqrt(100000 - t * h * h)
            IN Quot(SinPi(2 * k) * 316, root)]]
Cpr(k, a, t) == Quot(a * CprUnit[t][k % NPhase], 100)

\* compute_squid_current(phase_diff, cpr, params1, cpr, params2) at one flux
\* point p: the largest total current over the free phase g
SquidCurrentAt(p, a1, t1, a2, t2) ==
    LET tot == [g \in 1..NPhase |-> Cpr(g - 1, a1, t1) + Cpr(g - 1 - p, a2, t2)]
    IN SeqMax(tot)

\* line 30: phase_diff = np.linspace(-2*pi, 2*pi, ...), as multiples of 2*pi/NPhase
PhaseDiff == [k \in 1..(2 * NPhase + 1) |-> k - 1 - NPhase]

ComputeSquidCurrent(a1, t1, a2, t2) ==
    [k \in 1..Len(PhaseDiff) |-> SquidCurrentAt(PhaseDiff[k], a1, t1, a2, t2)]

---------------------------------------------------------------------------
(* plot_squid_current.py *)

\* line 13: FIRST_JUNCTION = (1, 0.) as <<amplitude in 1/100, transparency in 1/10>>
FIRST_JUNCTION == <<100, 0>>
\* line 16, in tenths
SECOND_JUNCTION_TRANSPARENCIES == <<0, 6, 9>>
\* line 19, in hundredths
SECOND_JUNCTION_AMPLITUDES == <<10, 25, 50, 100>>

---------------------------------------------------------------------------
(* numpy float64: IEEE 754 binary64 arithmetic, round to nearest, ties to  *)
(* even.  A natural number is its sequence of base-2^15 digits, lowest     *)
(* first, without leading zero digits (<<>> is 0).  A float is [neg, m, e], *)
(* standing for (-1)^neg * m * 2^e with m odd, or m = <<>> for zero.  The   *)
(* magnitudes the demonstration handles are far from overflow and from the *)
(* subnormals.                                                             *)

\* significand precision of float64
MantissaBits == 53

\* bits per digit and the digit base
DigitBits == 15
Base == 2^DigitBits

RECURSIVE BigOf(_)
\* the digits of a non-negative TLC integer
BigOf(n) == IF n = 0 THEN <<>> ELSE <<n % Base>> \o BigOf(n \div Base)

RECURSIVE BTrim(_)
BTrim(a) == IF a = <<>> \/ a[Len(a)] # 0 THEN a ELSE BTrim(SubSeq(a, 1, Len(a) - 1))

DigitAt(a, k) == IF k <= Len(a) THEN a[k] ELSE 0

RECURSIVE BAddFrom(_, _, _, _)
BAddFrom(a, b, k, c) ==
    IF k > Len(a) /\ k > Len(b) THEN (IF c = 1 THEN <<1>> ELSE <<>>)
    ELSE LET t == DigitAt(a, k) + DigitAt(b, k) + c
         IN <<t % Base>> \o BAddFrom(a, b, k + 1, t \div Base)
BAdd(a, b) == BAddFrom(a, b, 1, 0)

RECURSIVE BSubFrom(_, _, _, _)
BSubFrom(a, b, k, c) ==
    IF k > Len(a) THEN <<>>
    ELSE LET d == DigitAt(a, k) - DigitAt(b, k) - c
         IN <<d % Base>> \o BSubFrom(a, b, k + 1, IF d < 0 THEN 1 ELSE 0)
\* a - b for a >= b
BSub(a, b) == BTrim(BSubFrom(a, b, 1, 0))

RECURSIVE BLessFrom(_, _, _)
BLessFrom(a, b, k) ==
    IF k = 0 THEN FALSE
    ELSE IF a[k] # b[k] THEN a[k] < b[k]
    ELSE BLessFrom(a, b, k - 1)
BLess(a, b) == IF Len(a) # Len(b) THEN Len(a) < Len(b) ELSE BLessFrom(a, b, Len(a))

RECURSIVE BMulFrom(_, _, _, _)
BMulFrom(a, f, k, c) ==
    IF k > Len(a) THEN BigOf(c)
    ELSE LET t == a[k] * f + c
         IN <<t % Base>> \o BMulFrom(a, f, k + 1, t \div Base)
\* a * f for a factor 0 <= f < Base
BMulSmall(a, f) == BTrim(BMulFrom(a, f, 1, 0))

\* a * 2^k and the quotient of a by 2^k
BShl(a, k) ==
    IF a = <<>> THEN <<>>
    ELSE BMulSmall([j \in 1..(k \div DigitBits) |-> 0] \o a, 2^(k % DigitBits))
BShr(a, k) ==
    LET w == k \div DigitBits
        s == k % DigitBits
    IN IF w >= Len(a) THEN <<>>
       ELSE BTrim([j \in 1..(Len(a) - w) |->
                (a[j + w] \div 2^s) + (DigitAt(a, j + w + 1) % 2^s) * 2^(DigitBits - s)])

\* number of bits of a, and bit k of a (bit 1 is the lowest)
BitLen(a) ==
    IF a = <<>> THEN 0
    ELSE (Len(a) - 1) * DigitBits + (CHOOSE j \in 1..DigitBits : 2^(j - 1) <= a[Len(a)] /\ a[Len(a)] < 2^j)
BitAt(a, k) == (DigitAt(a, ((k - 1) \div DigitBits) + 1) \div 2^((k - 1) % DigitBits)) % 2

RECURSIVE DigitIn(_, _, _, _)
\* the largest d in lo..hi with d * b <= r, by bisection
DigitIn(r, b, lo, hi) ==
    IF lo = hi THEN lo
    ELSE LET mid == (lo + hi + 1) \div 2
         IN IF BLess(r, BMulSmall(b, mid)) THEN DigitIn(r, b, lo, mid - 1)
            ELSE DigitIn(r, b, mid, hi)

RECURSIVE BDivFrom(_, _, _)
\* long division by b # 0 of the digits k..Len(a) of a: quotient digits and remainder
BDivFrom(a, b, k) ==
    IF k > Len(a) THEN [q |-> <<>>, r |-> <<>>]
    ELSE LET up == BDivFrom(a, b, k + 1)
             r1 == BTrim(<<a[k]>> \o up.r)
             d == DigitIn(r1, b, 0, Base - 1)
         IN [q |-> <<d>> \o up.q, r |-> BSub(r1, BMulSmall(b, d))]

FZero == [neg |-> FALSE, m |-> <<>>, e |-> 0]
\* what a division by zero leaves in the array (inf or nan)
FInvalid == [neg |-> TRUE, m |-> <<>>, e |-> 0]

\* n * 2^e with the significand made odd
Canon(neg, n, e) ==
    IF n = <<>> THEN FZero
    ELSE LET \* the number of zero bits below the lowest one bit
             z == CHOOSE z \in 0..(BitLen(n) - 1) :
                    BitAt(n, z + 1) = 1 /\ \A j \in 1..z : BitAt(n, j) = 0
         IN [neg |-> neg, m |-> BShr(n, z), e |-> e + z]

\* n * 2^e rounded to MantissaBits significant bits, ties to even
RoundNearestEven(neg, n, e) ==
    IF BitLen(n) <= MantissaBits THEN Canon(neg, n, e)
    ELSE LET d == BitLen(n) - MantissaBits
             kept == BShr(n, d)
             sticky == \E j \in 1..(d - 1) : BitAt(n, j) = 1
             up == BitAt(n, d) = 1 /\ (sticky \/ BitAt(kept, 1) = 1)
         IN Canon(neg, IF up THEN BAdd(kept, <<1>>) ELSE kept, e + d)

FromInt(v) == Canon(v < 0, BigOf(Abs(v)), 0)
FNeg(x) == IF x.m = <<>> THEN x ELSE [x EXCEPT !.neg = ~x.neg]

\* x + y before rounding, as [neg, n, e]
ExactAdd(x, y) ==
    LET e == IF x.e < y.e THEN x.e ELSE y.e
        a == BShl(x.m, x.e - e)
        b == BShl(y.m, y.e - e)
    IN IF x.m = <<>> THEN [neg |-> y.neg, n |-> y.m, e |-> y.e]
       ELSE IF y.m = <<>> THEN [neg |-> x.neg, n |-> x.m, e |-> x.e]
       ELSE IF x.neg = y.neg THEN [neg |-> x.neg, n |-> BAdd(a, b), e |-> e]
       ELSE IF BLess(a, b) THEN [neg |-> y.neg, n |-> BSub(b, a), e |-> e]
       ELSE [neg |-> x.neg, n |-> BSub(a, b), e |-> e]

\* float64 +, -, / 2, /
FAdd(x, y) == LET t == ExactAdd(x, y) IN RoundNearestEven(t.neg, t.n, t.e)
FSub(x, y) == FAdd(x, FNeg(y))
FHalve(x) == IF x.m = <<>> THEN x ELSE [x EXCEPT !.e = @ - 1]
FDiv(x, y) ==
    LET k0 == MantissaBits + 2 + BitLen(y.m) - BitLen(x.m)
        k == IF k0 < 0 THEN 0 ELSE k0
        dm == BDivFrom(BShl(x.m, k), y.m, 1)
        \* one more bit below the quotient: is the remainder nonzero
        n == BAdd(BMulSmall(BTrim(dm.q), 2), IF dm.r = <<>> THEN <<>> ELSE <<1>>)
    IN IF y.m = <<>> THEN FInvalid
       ELSE IF x.m = <<>> THEN FZero
       ELSE RoundNearestEven(x.neg # y.neg, n, x.e - y.e - k - 1)

\* the exact difference x - y, and the order of two floats
ExactSub(x, y) == LET t == ExactAdd(x, FNeg(y)) IN Canon(t.neg, t.n, t.e)
FLeq(x, y) == ~ExactSub(y, x).neg

\* the float64 nearest to v / 1000: a current the model library returns
AsFloat(v) == FDiv(FromInt(v), FromInt(1000))

\* line 38: amplitude = np.amax(squid) - np.min(squid)
Amplitude(sq) == FSub(AsFloat(SeqMax(sq)), AsFloat(SeqMin(sq)))
\* a midpoint that forgets to halve
BaselineUnhalved(sq) == FAdd(AsFloat(SeqMax(sq)), AsFloat(SeqMin(sq)))
\* line 39: baseline = (np.amax(squid) + np.min(squid)) / 2
Baseline(sq) == FHalve(FAdd(AsFloat(SeqMax(sq)), AsFloat(SeqMin(sq))))
\* line 41: (squid - baseline) / amplitude
Normalize(sq) ==
    [k \in 1..Len(sq) |-> FDiv(FSub(AsFloat(sq[k]), Baseline(sq)), Amplitude(sq))]

InitDemo ==
    /\ script = "demo"
    /\ pc = "figure"
    /\ args = ArgsDefault
    /\ config = <<>>
    /\ reads = {}
    /\ opened = <<>>
    /\ err = NoErr
    /\ warns = {}
    /\ saved = {}
    /\ heap = <<>>
    /\ ibias = NoObj /\ meas = NoObj /\ dvdi = NoObj
    /\ InplaneIdle
    /\ SquidIdle
    /\ DemoIdle

\* lines 32-33: the next transparency opens a figure; after the last, plt.show()
NewFigure ==
    /\ script = "demo" /\ pc = "figure"
    /\ pc' = IF t_idx <= Len(SECOND_JUNCTION_TRANSPARENCIES) THEN "curve" ELSE "done"
    /\ a_idx' = 1
    /\ UNCHANGED <<script, args, config, reads, opened, err, warns, saved, heap,
                   inplaneVars, squidVars, t_idx, squid, plotted>>

\* lines 34-42: one amplitude: the model curve, normalized and plotted
PlotCurve ==
    /\ script = "demo" /\ pc = "curve"
    /\ a_idx <= Len(SECOND_JUNCTION_AMPLITUDES)
    /\ squid' = ComputeSquidCurrent(FIRST_JUNCTION[1], FIRST_JUNCTION[2],
                                    SECOND_JUNCTION_AMPLITUDES[a_idx],
                                    SECOND_JUNCTION_TRANSPARENCIES[t_idx])
    /\ plotted' = Normalize(squid')
    /\ warns' = IF Amplitude(squid').m = <<>> THEN warns \cup {"divide by zero"} ELSE warns
    /\ a_idx' = a_idx + 1
    /\ UNCHANGED <<script, pc, args, config, reads, opened, err, saved, heap, inplaneVars,
                   squidVars, t_idx>>

\* line 43: plt.legend() closes the inner loop
Legend ==
    /\ script = "demo" /\ pc = "curve"
    /\ a_idx > Len(SECOND_JUNCTION_AMPLITUDES)
    /\ t_idx' = t_idx + 1
    /\ pc' = "figure"
    /\ UNCHANGED <<script, args, config, reads, opened, err, warns, saved, heap,
                   inplaneVars, squidVars, a_idx, squid, plotted>>

---------------------------------------------------------------------------
Init == InitInplane \/ InitSquid \/ InitDemo

Next ==
    \/ LoopTest
    \/ ResolveChannels
    \/ OpenAndRead
    \/ ComputeDvdi
    \/ PlotMap
    \/ ExtractAndSave
    \/ AlignAndShow
    \/ ResolveInput
    \/ SetupOutput
    \/ LoadData
    \/ PlotRaw
    \/ ExtractIc
    \/ FridgeConvention
    \/ SeedParams
    \/ PlotEstimates
    \/ Fit
    \/ Emcee
    \/ PlotFit
    \/ NewFigure
    \/ PlotCurve
    \/ Legend

Spec == Init /\ [][Next]_vars

---------------------------------------------------------------------------
(* Properties *)

\* the dataset index a key is suffixed with (0 for an unsuffixed key)
SuffixIdx(key) ==
    IF key[2] = <<>> THEN 0 ELSE CHOOSE j \in 1..(MaxIdx + 1) : IntToStr(j) = key[2]

\* the smallest positive index whose DATAPATH key is absent
FirstAbsent == CHOOSE j \in 1..(MaxIdx + 1) :
    /\ ~Has(config, KeyN("DATAPATH", j))
    /\ \A n \in 1..(j - 1) : Has(config, KeyN("DATAPATH", n))

\* the smallest positive index whose DATAPATH key is absent or empty
FirstFalsy == CHOOSE j \in 1..(MaxIdx + 1) :
    /\ ~Truthy(config, KeyN("DATAPATH", j))
    /\ \A n \in 1..(j - 1) : Truthy(config, KeyN("DATAPATH", n))

\* the dataset loop has been left without a failure inside it
LoopLeft == pc \in {"align", "done"} \/ (pc = "error" /\ err.key = Key("") /\ err.kind = "TypeError")

\* files were opened for datasets 1, 2, ... in that order, none skipped
OpenedInOrder == \A n \in 1..Len(opened) : opened[n] = PathOf(n)

\* C1 as stated: the loop processes exactly datasets 1..k in increasing order,
\* k+1 being the smallest index whose DATAPATH key is absent, and no key that
\* exists with a suffix j > k is read, nor a file opened for it
C1_AsStated ==
    script = "inplane" =>
        LET k == FirstAbsent - 1
        IN /\ OpenedInOrder
           /\ Len(opened) <= k
           /\ LoopLeft => Len(opened) = k /\ Len(fraun_center) = k
           /\ \A key \in reads \cap DOMAIN config : SuffixIdx(key) <= k

\* C1: the loop processes exactly datasets 1..k in increasing order, k+1 being
\* the smallest index whose DATAPATH key is absent or holds an empty value; no
\* key suffixed j > k is looked up other than DATAPATH{k+1}, the probe that
\* ends the loop, and no file is opened for j > k
C1_LoopStopsAtFirstGap ==
    script = "inplane" =>
        LET k == FirstFalsy - 1
        IN /\ OpenedInOrder
           /\ Len(opened) <= k
           /\ LoopLeft => Len(opened) = k /\ Len(fraun_center) = k
           /\ \A key \in reads :
                \/ SuffixIdx(key) <= k
                \/ key = KeyN("DATAPATH", k + 1)

\* a finished run that processed dataset 1 only, although the configuration
\* holds a DATAPATH2 key (empty) and keys suffixed 2
C1_Witness ==
    /\ script = "inplane" /\ pc = "done"
    /\ Len(fraun_center) = 1
    /\ Has(config, KeyN("DATAPATH", 2))
    /\ Has(config, KeyN("CH_MEAS", 2))

\* the value the claim expects for base key b and dataset j
Expected(b, j) == IF Has(config, KeyN(b, j)) THEN config[KeyN(b, j)] ELSE config[Key(b)]
\* the claim speaks of dataset j and key b: one of the two keys is defined
Covered(b, j) == Has(config, KeyN(b, j)) \/ Has(config, Key(b))
\* the run is past the point where dataset j's channels are resolved
PastChannels(j) == used[j].entered /\ (j < i \/ pc # "resolve")

\* C2 as stated: for every dataset the loop takes up and each of THRESHOLD,
\* CH_BIAS, CH_MEAS, the suffixed key's value is used when it is defined,
\* whether or not the unsuffixed key is defined, else the unsuffixed key's
\* value; a suffixed key of one dataset changes no other dataset's value
C2_AsStated ==
    script = "inplane" =>
        \A j \in DatasetIdx :
            /\ PastChannels(j) /\ Covered("CH_BIAS", j) =>
                  "CH_BIAS" \in used[j].got /\ used[j].ch_bias = Expected("CH_BIAS", j)
            /\ PastChannels(j) /\ Covered("CH_MEAS", j) /\ Has(config, Key("CH_BIAS")) =>
                  "CH_MEAS" \in used[j].got /\ used[j].ch_meas = Expected("CH_MEAS", j)
            /\ j < i /\ Covered("THRESHOLD", j) =>
                  used[j].threshold = Some(Expected("THRESHOLD", j))

FitArtifacts ==
    {"_fit-report.txt", "_fit-params.txt", "_model-result.json", "_mcmc-result.json",
     "_fit.csv"}
DryRunPlots ==
    {"_raw-data.png", "_ic-extraction.png", "_fft.png", "_bfield-offset.png", "_fit.png"}

\* C3: with --dry-run, whatever the other flags, no optimization or sampling
\* starts and no fit artifact is written; a run fails only before its first
\* plot (on a configuration error), otherwise it always has a next step until
\* the final display, and there the four diagnostic plots and the overlay
\* plot are saved
C3_DryRunSkipsFit ==
    script = "squid" /\ args.dry_run =>
        /\ fits = {} /\ ~result.done /\ ~mcmc.done
        /\ saved \cap FitArtifacts = {}
        /\ pc = "error" => saved = {} /\ err.kind # ""
        /\ pc \notin {"done", "error"} => ENABLED Next
        /\ pc = "done" => saved = DryRunPlots

\* a dry run with every other flag set, at the final display
C3_Witness ==
    /\ script = "squid" /\ pc = "done"
    /\ args.dry_run /\ args.both_branches /\ args.plot_guess /\ args.emcee /\ args.verbose
    /\ args.conf_interval = "sigmas"

\* the table of section 4.1, keyed by upper-cased fridge and axis letter
SpecTable ==
    LET F14 == Upper(FR_fourteen_tesla)  V9 == Upper(FR_vector9)  V10 == Upper(FR_vector10)
    IN (<< F14, <<"X">> >> :> 8341) @@ (<< F14, <<"Y">> >> :> 8341) @@
       (<< F14, <<"Z">> >> :> 8341) @@
       (<< V9, <<"X">> >> :> 35705) @@ (<< V9, <<"Y">> >> :> 72575) @@
       (<< V9, <<"Z">> >> :> 18203) @@
       (<< V10, <<"X">> >> :> 35927) @@ (<< V10, <<"Y">> >> :> 74548) @@
       (<< V10, <<"Z">> >> :> 18011)

\* the conversion-factor lookup of the SQUID script has been attempted
LookupDone ==
    /\ script = "squid" /\ pc # "input"
    /\ \A b \in {"DATAPATH", "FRIDGE", "PERP_AXIS"} : Has(config, Key(b))

\* C4 as stated: for every fridge of the table and every axis letter, in any
\* letter case, the lookup returns the literal value given for that fridge
\* (FOURTEEN_TESLA: 8.341 whatever the axis); a fridge/axis combination that is
\* not in the table fails with a not-found error
C4_AsStated ==
    LookupDone =>
        LET f == Upper(config[Key("FRIDGE")])
            a == Upper(config[Key("PERP_AXIS")])
        IN IF <<f, a>> \in DOMAIN SpecTable
           THEN err.kind # "AttributeError" /\ AMPS_PER_T = SpecTable[<<f, a>>]
           ELSE a # <<>> => pc = "error" /\ err.kind = "AttributeError"

\* the run has failed on the configuration: a required key is absent
ConfigError ==
    /\ pc = "error"
    /\ err.kind \in {"KeyError", "TypeError"}
    /\ err.key # Key("")

\* C5 as stated: in both scripts a run that fails on a missing configuration
\* key has opened no measurement file
C5_AsStated == ConfigError => opened = <<>>

\* C6 as stated: an array returned by the measurement-file reader still holds
\* the values read from the file, in every state of both scripts
C6_AsStated == \A id \in DOMAIN heap : heap[id].src = "file" => heap[id].val = heap[id].orig

\* the sign convention step of the SQUID script is behind the run
ConventionApplied ==
    script = "squid" /\ pc \in {"params", "estimates", "fit", "emcee", "plotfit", "done"}

\* C7: the fridge convention comes after the extraction and before any
\* parameter is seeded; for vector10 sample k of the three arrays is sample
\* N+1-k of the extracted ones with the field negated; for vector9 the arrays
\* are the extracted ones; for any other name they are the extracted ones, a
\* warning is issued and the run does not fail
C7_FridgeConvention ==
    /\ script = "squid" /\ pc \in {"input", "output", "load", "rawplot", "extract", "fridge"}
          => params = NoParams
    /\ script = "squid" /\ ext # NoExt => pc # "error"
    /\ ConventionApplied =>
        LET fr == config[Key("FRIDGE")]
            b == heap[bfield].val
            p == heap[ic_p].val
            n == heap[ic_n].val
            N == Len(ext.bfield)
            same == b = ext.bfield /\ p = ext.ic_p /\ n = ext.ic_n
        IN /\ ext # NoExt /\ Len(b) = N /\ Len(p) = N /\ Len(n) = N
           /\ fr = FR_vector10 =>
                /\ \A k \in 1..N :
                     <<b[k], p[k], n[k]>> =
                        <<-ext.bfield[N + 1 - k], ext.ic_p[N + 1 - k], ext.ic_n[N + 1 - k]>>
                /\ "unrecognized fridge" \notin warns
           /\ fr = FR_vector9 => same /\ "unrecognized fridge" \notin warns
           /\ fr \notin {FR_vector10, FR_vector9} => same /\ "unrecognized fridge" \in warns
           /\ pc # "params" =>
                params.bfield_offset = b[CHOOSE k \in 1..N : \A m \in 1..N : p[m] <= p[k]]

\* a vector10 run, about to fit, whose arrays differ from the extracted ones
C7_Witness ==
    /\ script = "squid" /\ pc = "fit"
    /\ config[Key("FRIDGE")] = FR_vector10
    /\ heap[bfield].val # ext.bfield
    /\ heap[ic_n].val # ext.ic_n
    /\ params.bfield_offset # 0

\* channel names by the suffix the claim classifies them with
DCNames == {CH_DMM_VI, CH_DMM_SV}
ValueNames == {CH_LOCKIN_VALUE}
\* dataset j's conversion ran to its end
Converted(j) == j < i \/ (j = i /\ pc \in {"plot2d", "extract"})

\* C8: a name ending in "VI curve" or "SingleValue" gets the gradient quotient
\* divided by the gain and nothing else, the bias array untouched; any other
\* name gets the magnitude; the AC normalization and the division of the bias
\* by R_DC_OUT are applied, together, exactly for names ending in "Value"
\* that are not DC names
C8_OneConversionPerName ==
    script = "inplane" =>
        /\ \A j \in DatasetIdx : Converted(j) =>
              LET name == used[j].ch_meas
              IN /\ name \in MeasNames
                 /\ name \in DCNames => conv[j] = {"gradient", "gain"}
                 /\ name \notin DCNames => "abs" \in conv[j] /\ conv[j] \cap {"gradient", "gain"} = {}
                 /\ "acnorm" \in conv[j] <=> (name \in ValueNames /\ name \notin DCNames)
                 /\ "biasdiv" \in conv[j] <=> "acnorm" \in conv[j]
        /\ pc = "plot2d" =>
              LET d == FileData(IdxOfPath(opened[i]))
                  v == heap[dvdi].val
                  bias == heap[ibias].val
              IN /\ ch_meas \in DCNames =>
                      /\ bias = d.ibias
                      /\ \A k \in 1..Len(v) :
                            v[k] = (Gradient(d.meas)[k] \div Gradient(d.ibias)[k]) \div 2
                 /\ ch_meas = CH_TRACER_DR =>
                      bias = d.ibias /\ \A k \in 1..Len(v) : v[k] = Abs(d.meas[k])
                 /\ ch_meas \in ValueNames =>
                      /\ \A k \in 1..Len(v) : v[k] = Abs(d.meas[k]) \div (d.amplitude \div 2)
                      /\ \A k \in 1..Len(v) : bias[k] = d.ibias[k] \div 2

\* a "SingleValue" channel converted, about to be plotted
C8_Witness ==
    /\ script = "inplane" /\ pc = "plot2d"
    /\ ch_meas = CH_DMM_SV
    /\ conv[i] = {"gradient", "gain"}

\* C9 as stated: every value a fit or a sampling run may give the
\* transparencies is strictly below 1, and with EQUAL_TRANSPARENCIES set the
\* two are equal
C9_AsStated ==
    script = "squid" =>
        \A r \in {result, mcmc} : r.done =>
            /\ r.t1 < TOne /\ r.t2 < TOne
            /\ EqualTransparencies(config) => r.t2 = r.t1

FHalf == [neg |-> FALSE, m |-> <<1>>, e |-> -1]
\* x and y differ by less than 2^-40 (about 1e-12)
Close(x, y) == LET d == ExactSub(x, y) IN d.m = <<>> \/ BitLen(d.m) + d.e <= -40
\* positions of the largest and smallest currents of the curve
PeakIdx == {k \in 1..Len(squid) : squid[k] = SeqMax(squid)}
TroughIdx == {k \in 1..Len(squid) : squid[k] = SeqMin(squid)}

\* C10 as stated: every plotted curve of the demonstration has max > min, so
\* nothing is divided by zero, and its normalized values have minimum exactly
\* -0.5 and maximum exactly +0.5
C10_AsStated ==
    script = "demo" /\ plotted # <<>> =>
        /\ SeqMax(squid) > SeqMin(squid)
        /\ "divide by zero" \notin warns
        /\ \A k \in 1..Len(plotted) :
              FLeq(FNeg(FHalf), plotted[k]) /\ FLeq(plotted[k], FHalf)
        /\ \A k \in PeakIdx : plotted[k] = FHalf
        /\ \A k \in TroughIdx : plotted[k] = FNeg(FHalf)

\* C10: every plotted curve of the demonstration has max > min, so nothing is
\* divided by zero; its normalized values at the largest and smallest
\* currents are +0.5 and -0.5 up to float64 rounding (within 2^-40), and no
\* value lies outside [-0.5, 0.5] by more than that
C10_NormalizedRange ==
    script = "demo" /\ plotted # <<>> =>
        /\ SeqMax(squid) > SeqMin(squid)
        /\ "divide by zero" \notin warns
        /\ Len(plotted) = Len(squid)
        /\ \A k \in 1..Len(plotted) :
              /\ plotted[k] # FInvalid
              /\ FLeq(FNeg(FHalf), plotted[k]) \/ Close(plotted[k], FNeg(FHalf))
              /\ FLeq(plotted[k], FHalf) \/ Close(plotted[k], FHalf)
        /\ \A k \in PeakIdx : Close(plotted[k], FHalf)
        /\ \A k \in TroughIdx : Close(plotted[k], FNeg(FHalf))

\* the last pair of the sweep, transparency 0.9 and amplitude 1, plotted, its
\* minimum a rounding error away from -0.5
C10_Witness ==
    /\ script = "demo" /\ pc = "curve"
    /\ t_idx = Len(SECOND_JUNCTION_TRANSPARENCIES)
    /\ a_idx = Len(SECOND_JUNCTION_AMPLITUDES) + 1
    /\ plotted # <<>>
    /\ \E k \in TroughIdx : plotted[k] # FNeg(FHalf) /\ Close(plotted[k], FNeg(FHalf))

\* C11 as stated: the two uses of the configured fridge name agree; for every
\* FRIDGE whose upper-cased name selects a VECTOR10 constant in the lookup,
\* the convention step leaves the three arrays reversed with the field
\* negated, and for every FRIDGE whose upper-cased name selects a VECTOR9
\* constant no unrecognized-fridge warning is issued
C11_AsStated ==
    ConventionApplied =>
        LET fr == config[Key("FRIDGE")]
            N == Len(ext.bfield)
        IN /\ Upper(fr) = Upper(FR_vector10) =>
                /\ heap[bfield].val = [k \in 1..N |-> -ext.bfield[N + 1 - k]]
                /\ heap[ic_p].val = [k \in 1..N |-> ext.ic_p[N + 1 - k]]
                /\ heap[ic_n].val = [k \in 1..N |-> ext.ic_n[N + 1 - k]]
           /\ Upper(fr) = Upper(FR_vector9) => "unrecognized fridge" \notin warns

=============================================================================
